---------------------------- MODULE Spec2Model ----------------------------
(***************************************************************************)
(* Model of src/5_2.cpp: a decorator chain of code renderers.  A text is a *)
(* sequence of characters; a character is a one-character string, and a    *)
(* byte >= 0x80 (the UTF-8 bytes of the Cyrillic comment of main's sample)  *)
(* is written "xNN".  Positions are 0-based as in std::string, so the       *)
(* character at position p of the text s is s[p + 1].                       *)
(***************************************************************************)
EXTENDS Integers, Sequences, FiniteSets, TLC

VARIABLES
    code,         \* convertToHTML's parameter `code` (the raw text)
    escapedCode,  \* convertToHTML's local `escapedCode`
    chain,        \* the renderers of the chain, outermost first
    pc,           \* "main", "render", "print" or "done"
    depth,        \* index in `chain` of the renderer whose render runs next
    arg,          \* the text passed to that render call
    received,     \* per renderer class: the `code` its render was called with
    forwarded,    \* per annotator class: the text it passed to wrapped->render
    calls,        \* the renderer classes in the order their render was entered
    kwLog,        \* KeywordHighlighter::render: one entry per candidate found
    html,         \* the string the outermost render returned
    out,          \* what was written to std::cout
    isalnumHigh   \* the build's answer of isalnum for a negative char value

vars == << code, escapedCode, chain, pc, depth, arg, received, forwarded,
           calls, kwLog, html, out, isalnumHigh >>

---------------------------------------------------------------------------
(* Bounds of the explored inputs *)

MaxTokens == 3

---------------------------------------------------------------------------
(* std::string *)

npos == -1

Min(S) == CHOOSE i \in S : \A j \in S : i <= j

\* s.find(pat, pos): the least position >= pos where pat occurs, or npos.
find(s, pat, pos) ==
    LET S == { i \in pos .. (Len(s) - Len(pat)) :
                 \A k \in 1 .. Len(pat) : s[i + k] = pat[k] }
    IN  IF S = {} THEN npos ELSE Min(S)

\* s.substr(pos, n)
substr(s, pos, n) == SubSeq(s, pos + 1, pos + n)

\* s.replace(pos, n, r)
replace(s, pos, n, r) == SubSeq(s, 1, pos) \o r \o SubSeq(s, pos + n + 1, Len(s))

---------------------------------------------------------------------------
(* <cctype> isalnum in the "C" locale (the program never calls setlocale). *)
(* Its argument is a plain char: for a byte >= 0x80 the value is negative  *)
(* where char is signed, which isalnum leaves undefined; the answer is the *)
(* build's, isalnumHigh.                                                   *)

Digits == { "0", "1", "2", "3", "4", "5", "6", "7", "8", "9" }

Lower == { "a", "b", "c", "d", "e", "f", "g", "h", "i", "j", "k", "l", "m",
           "n", "o", "p", "q", "r", "s", "t", "u", "v", "w", "x", "y", "z" }

Upper == { "A", "B", "C", "D", "E", "F", "G", "H", "I", "J", "K", "L", "M",
           "N", "O", "P", "Q", "R", "S", "T", "U", "V", "W", "X", "Y", "Z" }

HighBytes == { "x80", "x9F", "xB0", "xB4", "xB5", "xB8", "xBA", "xBC", "xBE",
               "xD0", "xD1" }

isalnum(c) ==
    \/ c \in Digits \cup Lower \cup Upper
    \/ c \in HighBytes /\ isalnumHigh

---------------------------------------------------------------------------
(* The literals of the markup *)

SpanOpenHead ==
    << "<", "s", "p", "a", "n", " ", "s", "t", "y", "l", "e", "=", "'", "c",
       "o", "l", "o", "r", ":", " " >>

SpanOpenTail == << ";", "'", ">" >>

SpanClose == << "<", "/", "s", "p", "a", "n", ">" >>

PreOpen ==
    << "<", "p", "r", "e", " ", "s", "t", "y", "l", "e", "=", "'", "f", "o",
       "n", "t", "-", "f", "a", "m", "i", "l", "y", ":", " ", "m", "o", "n",
       "o", "s", "p", "a", "c", "e", ";", "'", ">" >>

PreClose == << "<", "/", "p", "r", "e", ">" >>

blue == << "b", "l", "u", "e" >>
purple == << "p", "u", "r", "p", "l", "e" >>
darkblue == << "d", "a", "r", "k", "b", "l", "u", "e" >>
darkorange == << "d", "a", "r", "k", "o", "r", "a", "n", "g", "e" >>
red == << "r", "e", "d" >>
green == << "g", "r", "e", "e", "n" >>
gray == << "g", "r", "a", "y" >>

\* "<span style='color: " + color + ";'>"
SpanOpen(color) == SpanOpenHead \o color \o SpanOpenTail

---------------------------------------------------------------------------
(* PlainCodeRenderer::render *)

PlainCodeRenderer_render(c) == PreOpen \o c \o PreClose

---------------------------------------------------------------------------
(* KeywordHighlighter *)

\* Variant: a rule for a word of the markup itself is added to the list.
keywordsWithSpanRule ==
    << [keyword |-> << "i", "n", "t" >>,                          color |-> blue],
       [keyword |-> << "v", "o", "i", "d" >>,                     color |-> blue],
       [keyword |-> << "c", "l", "a", "s", "s" >>,                color |-> purple],
       [keyword |-> << "p", "u", "b", "l", "i", "c" >>,           color |-> purple],
       [keyword |-> << "p", "r", "i", "v", "a", "t", "e" >>,      color |-> purple],
       [keyword |-> << "r", "e", "t", "u", "r", "n" >>,           color |-> darkblue],
       [keyword |-> << "i", "f" >>,                               color |-> darkorange],
       [keyword |-> << "e", "l", "s", "e" >>,                     color |-> darkorange],
       [keyword |-> << "f", "o", "r" >>,                          color |-> darkorange],
       [keyword |-> << "w", "h", "i", "l", "e" >>,                color |-> darkorange],
       [keyword |-> << "#", "i", "n", "c", "l", "u", "d", "e" >>, color |-> red],
       [keyword |-> << "c", "o", "u", "t" >>,                     color |-> blue],
       [keyword |-> << "s", "t", "r", "i", "n", "g" >> ,          color |-> green],
       [keyword |-> << "s", "p", "a", "n" >> ,                    color |-> green] >>

keywordsWithColors ==
    << [keyword |-> << "i", "n", "t" >>,                          color |-> blue],
       [keyword |-> << "v", "o", "i", "d" >>,                     color |-> blue],
       [keyword |-> << "c", "l", "a", "s", "s" >>,                color |-> purple],
       [keyword |-> << "p", "u", "b", "l", "i", "c" >>,           color |-> purple],
       [keyword |-> << "p", "r", "i", "v", "a", "t", "e" >>,      color |-> purple],
       [keyword |-> << "r", "e", "t", "u", "r", "n" >>,           color |-> darkblue],
       [keyword |-> << "i", "f" >>,                               color |-> darkorange],
       [keyword |-> << "e", "l", "s", "e" >>,                     color |-> darkorange],
       [keyword |-> << "f", "o", "r" >>,                          color |-> darkorange],
       [keyword |-> << "w", "h", "i", "l", "e" >>,                color |-> darkorange],
       [keyword |-> << "#", "i", "n", "c", "l", "u", "d", "e" >>, color |-> red],
       [keyword |-> << "c", "o", "u", "t" >>,                     color |-> blue],
       [keyword |-> << "s", "t", "r", "i", "n", "g" >> ,          color |-> green] >>

\* Variant: the character after the candidate is not looked at.
kwBoundaryLeftOnly(highlighted, pos, n) ==
    pos = 0 \/ ~isalnum(highlighted[pos])

\* The condition of the if at lines 61-62: the candidate of length n at
\* position pos of highlighted is a whole word.
kwBoundary(highlighted, pos, n) ==
    /\ pos = 0 \/ ~isalnum(highlighted[pos])
    /\ pos + n = Len(highlighted) \/ ~isalnum(highlighted[pos + n + 1])

\* Variant: the style attribute is written in double quotes.
kwReplacementDoubleQuoted(kw) ==
    << "<", "s", "p", "a", "n", " ", "s", "t", "y", "l", "e", "=", "\"", "c",
       "o", "l", "o", "r", ":", " " >> \o kw.color \o << ";", "\"", ">" >>
    \o kw.keyword \o SpanClose

\* Line 64: the replacement of an accepted candidate.
kwReplacement(kw) == SpanOpen(kw.color) \o kw.keyword \o SpanClose

\* Lines 66 and 68: the cursor after a candidate at pos.
kwAdvance(pos, kw, accepted) ==
    IF accepted THEN pos + Len(kwReplacement(kw)) ELSE pos + Len(kw.keyword)

\* The while loop of lines 60-70 for rule number r, from cursor pos.  The
\* result is the working copy and the log of the candidates it found.
RECURSIVE kwScan(_, _, _, _)
kwScan(highlighted, r, pos, log) ==
    LET kw == keywordsWithColors[r]
        p  == find(highlighted, kw.keyword, pos)
    IN  IF p = npos
        THEN [text |-> highlighted, log |-> log]
        ELSE LET accepted == kwBoundary(highlighted, p, Len(kw.keyword))
                 after    == IF accepted
                             THEN replace(highlighted, p, Len(kw.keyword),
                                          kwReplacement(kw))
                             ELSE highlighted
                 entry    == [rule |-> r, pos |-> p, before |-> highlighted,
                              accepted |-> accepted, after |-> after]
             IN  kwScan(after, r, kwAdvance(p, kw, accepted), Append(log, entry))

\* Variant: the loop over the rules stops one rule early.
RECURSIVE kwRulesButLast(_, _, _)
kwRulesButLast(highlighted, r, log) ==
    IF r >= Len(keywordsWithColors)
    THEN [text |-> highlighted, log |-> log]
    ELSE LET done == kwScan(highlighted, r, 0, log)
         IN  kwRulesButLast(done.text, r + 1, done.log)

\* The for loop of lines 58-71, from rule number r on.
RECURSIVE kwRules(_, _, _)
kwRules(highlighted, r, log) ==
    IF r > Len(keywordsWithColors)
    THEN [text |-> highlighted, log |-> log]
    ELSE LET done == kwScan(highlighted, r, 0, log)
         IN  kwRules(done.text, r + 1, done.log)

\* KeywordHighlighter::render up to the call of wrapped->render.
KeywordHighlighter_highlight(c) == kwRules(c, 1, << >>)

---------------------------------------------------------------------------
(* StringHighlighter *)

DQ == "\""

stringColor == green

\* Variant: the closing quote is searched from pos, and is the opening one.
strEndFromPos(highlighted, pos) == find(highlighted, << DQ >>, pos)

\* Line 84: the closing quote is searched from pos + 1.
strEnd(highlighted, pos) == find(highlighted, << DQ >>, pos + 1)

\* Line 88
strReplacement(original) == SpanOpen(stringColor) \o original \o SpanClose

\* The while loop of lines 83-91, from cursor pos.
RECURSIVE strScan(_, _)
strScan(highlighted, pos) ==
    LET p == find(highlighted, << DQ >>, pos)
    IN  IF p = npos
        THEN highlighted
        ELSE LET end == strEnd(highlighted, p)
             IN  IF end = npos
                 THEN highlighted
                 ELSE LET original    == substr(highlighted, p, end - p + 1)
                          replacement == strReplacement(original)
                      IN  strScan(replace(highlighted, p, Len(original), replacement),
                                  p + Len(replacement))

\* StringHighlighter::render up to the call of wrapped->render.
StringHighlighter_highlight(c) == strScan(c, 0)

---------------------------------------------------------------------------
(* CommentHighlighter *)

Slashes == << "/", "/" >>

NL == "\n"

commentColor == gray

\* Variant: the comment takes the newline in.
cmtEndPastNewline(highlighted, pos) ==
    LET end == find(highlighted, << NL >>, pos)
    IN  IF end = npos THEN Len(highlighted) ELSE end + 1

\* Lines 104-105: the end of the comment that starts at pos.
cmtEnd(highlighted, pos) ==
    LET end == find(highlighted, << NL >>, pos)
    IN  IF end = npos THEN Len(highlighted) ELSE end

\* Variant: the span holds the comment without its marker.
cmtReplacementNoMarker(comment) ==
    SpanOpen(commentColor) \o SubSeq(comment, 3, Len(comment)) \o SpanClose

\* Line 108
cmtReplacement(comment) == SpanOpen(commentColor) \o comment \o SpanClose

\* The while loop of lines 103-111, from cursor pos.
RECURSIVE cmtScan(_, _)
cmtScan(highlighted, pos) ==
    LET p == find(highlighted, Slashes, pos)
    IN  IF p = npos
        THEN highlighted
        ELSE LET end         == cmtEnd(highlighted, p)
                 comment     == substr(highlighted, p, end - p)
                 replacement == cmtReplacement(comment)
             IN  cmtScan(replace(highlighted, p, Len(comment), replacement),
                         p + Len(replacement))

\* CommentHighlighter::render up to the call of wrapped->render.
CommentHighlighter_highlight(c) == cmtScan(c, 0)

---------------------------------------------------------------------------
(* convertToHTML: the escaping loop of lines 117-122 *)

escapeChar(c) ==
    IF c = "<" THEN << "&", "l", "t", ";" >>
    ELSE IF c = ">" THEN << "&", "g", "t", ";" >>
    ELSE << c >>

\* The concatenation of f[lo], ..., f[hi].
RECURSIVE Concat(_, _, _)
Concat(f, lo, hi) ==
    IF lo > hi THEN << >>
    ELSE IF lo = hi THEN f[lo]
    ELSE LET mid == (lo + hi) \div 2
         IN  Concat(f, lo, mid) \o Concat(f, mid + 1, hi)

escape(c) == Concat([i \in 1 .. Len(c) |-> escapeChar(c[i])], 1, Len(c))

---------------------------------------------------------------------------
(* main: the sample text and the chain *)

cppCode ==
    << "\n", "#", "i", "n", "c", "l", "u", "d", "e", " ", "<", "i", "o", "s",
       "t", "r", "e", "a", "m", ">", "\n", "/", "/", " ", "xD0", "x9F", "xD1",
       "x80", "xD0", "xB8", "xD0", "xBC", "xD0", "xB5", "xD1", "x80", " ",
       "xD0", "xBA", "xD0", "xBE", "xD0", "xB4", "xD0", "xB0", "\n", "i", "n",
       "t", " ", "m", "a", "i", "n", "(", ")", " ", "{", "\n", " ", " ", " ",
       " ", "s", "t", "r", "i", "n", "g", " ", "m", "e", "s", "s", "a", "g",
       "e", " ", "=", " ", "\"", "H", "e", "l", "l", "o", ",", " ", "W", "o",
       "r", "l", "d", "!", "\"", ";", "\n", " ", " ", " ", " ", "r", "e", "t",
       "u", "r", "n", " ", "0", ";", "\n", "}", "\n" >>

Plain == "PlainCodeRenderer"
Keyword == "KeywordHighlighter"
String == "StringHighlighter"
Comment == "CommentHighlighter"

Annotators == { Keyword, String, Comment }
Classes == Annotators \cup { Plain }

\* Variant: String is constructed last and is the outermost renderer.
mainChainStringLast == << String, Comment, Keyword, Plain >>

\* Lines 136-139: Plain is wrapped by Keyword, that by String, that by Comment.
mainChain == << Comment, String, Keyword, Plain >>


---------------------------------------------------------------------------
(* The texts handed to convertToHTML: main's sample, the examples of the   *)
(* documentation, and every concatenation of at most MaxTokens tokens.     *)

SampleReturn == << "r", "e", "t", "u", "r", "n", " ", "0", ";" >>

SampleEndToEnd ==
    << "i", "n", "t", " ", "m", "a", "i", "n", "(", ")", " ", "{", " ", "r",
       "e", "t", "u", "r", "n", " ", "0", ";", " ", "/", "/", " ", "d", "o",
       "n", "e", "\n", " ", "}" >>

SampleEscaped ==
    << "\"", "h", "e", "l", "l", "o", " ", "\\", "\"", "w", "o", "r", "l",
       "d", "\\", "\"", "\"" >>

SampleAllKeywords ==
    << "i", "n", "t", " ", "v", "o", "i", "d", " ", "c", "l", "a", "s", "s",
       " ", "p", "u", "b", "l", "i", "c", " ", "p", "r", "i", "v", "a", "t",
       "e", " ", "r", "e", "t", "u", "r", "n", " ", "i", "f", " ", "e", "l",
       "s", "e", " ", "f", "o", "r", " ", "w", "h", "i", "l", "e", " ", "#",
       "i", "n", "c", "l", "u", "d", "e", " ", "c", "o", "u", "t", " ", "s",
       "t", "r", "i", "n", "g" >>

Samples ==
    { cppCode, SampleReturn, SampleEndToEnd, SampleEscaped, SampleAllKeywords }

\* Keywords next to letters, digits, underscores, blanks, bytes >= 0x80 and
\* each other.
TokensWord ==
    { << "i", "n", "t" >>, << "#", "i", "n", "c", "l", "u", "d", "e" >>,
      << "s", "t", "r", "i", "n", "g" >>,
      << "e", "l", "s", "e" >>,
      << "x" >>, << "0" >>, << "_" >>, << " " >>, << "xD0" >> }

\* Quotes, backslashes, comment markers, line ends.
TokensLex ==
    { << DQ >>, << "\\" >>, Slashes, << NL >>, << "i", "n", "t" >>,
      << "a" >>, << "/" >>, << "<" >> }

RECURSIVE Texts(_, _)
Texts(tokens, n) ==
    IF n = 0 THEN { << >> }
    ELSE LET shorter == Texts(tokens, n - 1)
         IN  shorter \cup { t \o k : t \in shorter, k \in tokens }

\* Keywords, quotes, comment markers and line ends side by side.
TokensMixed ==
    { << "i", "n", "t" >>, << "s", "t", "r", "i", "n", "g" >>,
      << "#", "i", "n", "c", "l", "u", "d", "e" >>, << DQ >>, Slashes, << NL >>,
      << " " >> }

OrderInputs == Samples \cup Texts(TokensMixed, MaxTokens)

Inputs == Samples \cup Texts(TokensWord, MaxTokens) \cup Texts(TokensLex, MaxTokens)

---------------------------------------------------------------------------
(* The program *)

NoText == [c \in Classes |-> << >>]

Start(chains, inputs) ==
    /\ code \in inputs
    /\ isalnumHigh \in BOOLEAN
    /\ chain \in chains
    /\ escapedCode = << >>
    /\ pc = "main"
    /\ depth = 0
    /\ arg = << >>
    /\ received = NoText
    /\ forwarded = NoText
    /\ calls = << >>
    /\ kwLog = << >>
    /\ html = << >>
    /\ out = << >>

\* main builds the chain of lines 136-139.
Init == Start({ mainChain }, Inputs)

\* convertToHTML, lines 117-123: escape the text, call renderer.render.
ConvertToHTML ==
    /\ pc = "main"
    /\ escapedCode' = escape(code)
    /\ arg' = escapedCode'
    /\ depth' = 1
    /\ pc' = "render"
    /\ UNCHANGED << code, chain, received, forwarded, calls, kwLog, html, out,
                    isalnumHigh >>

\* An annotator's render: highlight, then call wrapped->render.
Forward(class, highlighted) ==
    /\ received' = [received EXCEPT ![class] = arg]
    /\ forwarded' = [forwarded EXCEPT ![class] = highlighted]
    /\ calls' = Append(calls, class)
    /\ arg' = highlighted
    /\ depth' = depth + 1
    /\ UNCHANGED << code, escapedCode, chain, pc, html, out, isalnumHigh >>

\* CommentHighlighter::render, lines 100-113.
CommentRender ==
    /\ pc = "render"
    /\ chain[depth] = Comment
    /\ Forward(Comment, CommentHighlighter_highlight(arg))
    /\ UNCHANGED kwLog

\* StringHighlighter::render, lines 80-93.
StringRender ==
    /\ pc = "render"
    /\ chain[depth] = String
    /\ Forward(String, StringHighlighter_highlight(arg))
    /\ UNCHANGED kwLog

\* KeywordHighlighter::render, lines 55-73.
KeywordRender ==
    /\ pc = "render"
    /\ chain[depth] = Keyword
    /\ LET done == KeywordHighlighter_highlight(arg)
       IN  /\ Forward(Keyword, done.text)
           /\ kwLog' = done.log

\* PlainCodeRenderer::render, lines 14-16; its result is returned unchanged
\* by every annotator above it (lines 72, 92, 112).
PlainRender ==
    /\ pc = "render"
    /\ chain[depth] = Plain
    /\ received' = [received EXCEPT ![Plain] = arg]
    /\ calls' = Append(calls, Plain)
    /\ html' = PlainCodeRenderer_render(arg)
    /\ pc' = "print"
    /\ UNCHANGED << code, escapedCode, chain, depth, arg, forwarded, kwLog, out,
                    isalnumHigh >>

\* Line 123: std::cout << ... << std::endl.
WriteOutput ==
    /\ pc = "print"
    /\ out' = html \o << NL >>
    /\ pc' = "done"
    /\ UNCHANGED << code, escapedCode, chain, depth, arg, received, forwarded,
                    calls, kwLog, html, isalnumHigh >>

Next ==
    \/ ConvertToHTML
    \/ CommentRender
    \/ StringRender
    \/ KeywordRender
    \/ PlainRender
    \/ WriteOutput

Spec == Init /\ [][Next]_vars

\* The same program with the three annotators nested in any order.
AllChains ==
    { ch \in { << a, b, c, Plain >> : a \in Annotators, b \in Annotators,
                                       c \in Annotators } :
        { ch[1], ch[2], ch[3] } = Annotators }

InitOrder == Start(AllChains, OrderInputs)

SpecOrder == InitOrder /\ [][Next]_vars

---------------------------------------------------------------------------
(* Operators the properties are stated with.  None of them is used by the  *)
(* program above.                                                          *)

\* pat occurs in s at the 0-based position p.
OccursAt(s, pat, p) ==
    /\ p >= 0
    /\ p + Len(pat) <= Len(s)
    /\ \A k \in 1 .. Len(pat) : s[p + k] = pat[k]

Occurrences(s, pat) == { p \in 0 .. (Len(s) - Len(pat)) : OccursAt(s, pat, p) }

\* s with before[i] put in front of its i-th character, after[i] behind it.
WithInsertions(s, before, after) ==
    Concat([i \in 1 .. Len(s) |-> before[i] \o << s[i] >> \o after[i]], 1, Len(s))

Done == pc = "done"

---------------------------------------------------------------------------
(* StringHighlighter: the quotes are paired by their rank *)

\* The number of quotes among the first i characters of s.
QuoteRank(s, i) == Cardinality({ j \in 1 .. i : s[j] = DQ })

\* s with the quotes of rank 1 and 2, 3 and 4, ... wrapped pairwise; a last
\* quote of odd rank has no partner and stays as it is.
PairedQuotes(s) ==
    LET total == QuoteRank(s, Len(s))
        rank  == [i \in 1 .. Len(s) |-> QuoteRank(s, i)]
        opens(i) == s[i] = DQ /\ rank[i] % 2 = 1 /\ rank[i] < total
        closes(i) == s[i] = DQ /\ rank[i] % 2 = 0
    IN  WithInsertions(s,
            [i \in 1 .. Len(s) |-> IF opens(i) THEN SpanOpen(green) ELSE << >>],
            [i \in 1 .. Len(s) |-> IF closes(i) THEN SpanClose ELSE << >>])

\* C5: StringHighlighter::render pairs the double quotes of its input by
\* position, the 1st with the 2nd, the 3rd with the 4th, and wraps each pair
\* with the text between in one span; a quote after a backslash is a quote
\* like any other; with an odd number of quotes the last one and the text
\* after it are forwarded as they were.
C5_QuotesPairedByPosition ==
    Done => forwarded[String] = PairedQuotes(received[String])

\* "hello \"world\"": the literals are "hello \" and "", world\ is plain.
C5_Witness ==
    /\ Done
    /\ code = SampleEscaped
    /\ forwarded[String] =
           SpanOpen(green) \o SubSeq(SampleEscaped, 1, 9) \o SpanClose
           \o SubSeq(SampleEscaped, 10, 15)
           \o SpanOpen(green) \o SubSeq(SampleEscaped, 16, 17) \o SpanClose

---------------------------------------------------------------------------
(* CommentHighlighter: one span per line with a marker *)

\* The index of the first character of the line that holds index i.
LineStart(s, i) ==
    LET breaks == { j \in 1 .. (i - 1) : s[j] = NL }
    IN  IF breaks = {} THEN 1 ELSE (CHOOSE j \in breaks : \A k \in breaks : k <= j) + 1

MarkerAt(s, i) == i < Len(s) /\ s[i] = "/" /\ s[i + 1] = "/"

\* A marker starts in the line of index i, before i.
MarkerBefore(s, i) == \E j \in LineStart(s, i) .. (i - 1) : MarkerAt(s, j)

\* s with every line's text from its first marker to its end wrapped.
LineCommentsWrapped(s) ==
    LET opens(i) == MarkerAt(s, i) /\ ~MarkerBefore(s, i)
        closes(i) == s[i] = NL /\ MarkerBefore(s, i)
    IN  WithInsertions(s,
            [i \in 1 .. Len(s) |->
                IF closes(i) THEN SpanClose
                ELSE IF opens(i) THEN SpanOpen(gray) ELSE << >>],
            [i \in 1 .. Len(s) |-> << >>])
        \o (IF MarkerBefore(s, Len(s) + 1) THEN SpanClose ELSE << >>)

\* C6: CommentHighlighter::render wraps, in every line that holds "//", the
\* text from the line's first "//" up to the newline (or the end of the
\* text) in one span; the newline stays outside, and what follows it is
\* changed only by the spans of the later lines.
C6_CommentUpToNewline ==
    Done => forwarded[Comment] = LineCommentsWrapped(received[Comment])

\* "int main() { return 0; // done\n }": "// done" is wrapped, "\n }" is not.
C6_Witness ==
    /\ Done
    /\ code = SampleEndToEnd
    /\ forwarded[Comment] =
           SubSeq(SampleEndToEnd, 1, 23) \o SpanOpen(gray)
           \o SubSeq(SampleEndToEnd, 24, 30) \o SpanClose
           \o SubSeq(SampleEndToEnd, 31, 33)

---------------------------------------------------------------------------
(* KeywordHighlighter: the candidates of the scan *)

LogEntries == { kwLog[n] : n \in 1 .. Len(kwLog) }

RuleKeyword(r) == keywordsWithColors[r].keyword
RuleColor(r) == keywordsWithColors[r].color

\* The span a rule puts around its keyword.
RuleSpan(r) == SpanOpen(RuleColor(r)) \o RuleKeyword(r) \o SpanClose

\* The characters next to the occurrence of a text of length n at the
\* 0-based position p of s; "" stands for no character on that side.
CharBefore(s, p) == IF p = 0 THEN "" ELSE s[p]
CharAfter(s, p, n) == IF p + n = Len(s) THEN "" ELSE s[p + n + 1]

\* A character of a C++ identifier.
IdentifierChar(c) == c \in Digits \cup Lower \cup Upper \cup { "_" }

\* C1: an occurrence of a keyword that is part of a larger identifier (an
\* identifier character stands right before it or right after it) gets no
\* span: the working copy is the same after the candidate as before it.
C1_NoSpanInsideIdentifier ==
    \A e \in LogEntries :
        LET n == Len(RuleKeyword(e.rule))
        IN  (\/ IdentifierChar(CharBefore(e.before, e.pos))
             \/ IdentifierChar(CharAfter(e.before, e.pos, n)))
            => e.after = e.before

\* C4: every candidate the scan finds is an occurrence of its rule's keyword
\* in the working copy, and it is replaced by the keyword in the rule's span
\* if and only if no alphanumeric character stands right before it and none
\* right after it; otherwise the working copy stays as it is.  So a keyword
\* that starts the input, or ends it, and has no alphanumeric character on
\* its other side, is forwarded inside its span.
C4_AcceptedIffWholeWord ==
    /\ \A e \in LogEntries :
           LET kw    == RuleKeyword(e.rule)
               w     == e.before
               whole == /\ CharBefore(w, e.pos) = "" \/ ~isalnum(CharBefore(w, e.pos))
                        /\ \/ CharAfter(w, e.pos, Len(kw)) = ""
                           \/ ~isalnum(CharAfter(w, e.pos, Len(kw)))
           IN  /\ OccursAt(w, kw, e.pos)
               /\ e.after = IF whole
                            THEN SubSeq(w, 1, e.pos) \o RuleSpan(e.rule)
                                 \o SubSeq(w, e.pos + Len(kw) + 1, Len(w))
                            ELSE w
    /\ Done =>
         \A r \in 1 .. Len(keywordsWithColors) :
            LET kw     == RuleKeyword(r)
                input  == received[Keyword]
                output == forwarded[Keyword]
                last   == Len(input) - Len(kw)
            IN  /\ (/\ OccursAt(input, kw, 0)
                    /\ CharAfter(input, 0, Len(kw)) = "" \/ ~isalnum(CharAfter(input, 0, Len(kw))))
                   => OccursAt(output, RuleSpan(r), 0)
                /\ (/\ OccursAt(input, kw, last)
                    /\ CharBefore(input, last) = "" \/ ~isalnum(CharBefore(input, last)))
                   => OccursAt(output, RuleSpan(r), Len(output) - Len(RuleSpan(r)))

\* "x int": the candidate at the end of the text is accepted.
C4_Witness ==
    /\ Done
    /\ received[Keyword] = << "x", " ", "i", "n", "t" >>
    /\ \E e \in LogEntries : e.accepted /\ e.pos = 2 /\ e.after # e.before
    /\ forwarded[Keyword] = << "x", " " >> \o SpanOpen(blue) \o << "i", "n", "t" >> \o SpanClose

---------------------------------------------------------------------------
(* KeywordHighlighter: spans and markup *)

\* The index i of s lies inside a tag: behind a "<" that no ">" has closed.
InsideTag(s, i) ==
    \E j \in 1 .. (i - 1) : s[j] = "<" /\ \A k \in j .. (i - 1) : s[k] # ">"

\* The occurrence of length n at position p of s shares a character with a
\* span that some rule has put into s.
TouchesRuleSpan(s, p, n) ==
    \E r \in 1 .. Len(keywordsWithColors) :
        \E q \in Occurrences(s, RuleSpan(r)) :
            q < p + n /\ p < q + Len(RuleSpan(r))

\* C8: no accepted candidate lies in, or overlaps, markup or a keyword span
\* already in the working copy; in the forwarded text every accepted
\* candidate is one span that holds exactly its keyword: per rule there are
\* as many such spans as accepted candidates, so no span was opened inside
\* another one.
C8_NoMatchInsideMarkup ==
    /\ \A e \in LogEntries :
           e.accepted =>
               /\ \A i \in (e.pos + 1) .. (e.pos + Len(RuleKeyword(e.rule))) :
                      ~InsideTag(e.before, i) /\ e.before[i] \notin { "<", ">" }
               /\ ~TouchesRuleSpan(e.before, e.pos, Len(RuleKeyword(e.rule)))
    /\ Done =>
         \A r \in 1 .. Len(keywordsWithColors) :
            Cardinality(Occurrences(forwarded[Keyword], RuleSpan(r)))
              = Cardinality({ n \in 1 .. Len(kwLog) :
                                kwLog[n].rule = r /\ kwLog[n].accepted })

\* main's sample: #include, int, string and return are wrapped after the
\* comment and the string literal were, each in a span of its own.
C8_Witness ==
    /\ Done
    /\ code = cppCode
    /\ Cardinality({ n \in 1 .. Len(kwLog) : kwLog[n].accepted }) = 4
    /\ \E e \in LogEntries :
           /\ e.accepted
           /\ e.rule = 13
           /\ Occurrences(e.before, RuleSpan(1)) # {}
           /\ Occurrences(e.before, SpanOpen(commentColor)) # {}

\* C9: the color of the span around a string literal is the color of no
\* keyword span: no accepted candidate is wrapped in that color.
C9_StringColorDistinct ==
    \A e \in LogEntries : e.accepted => RuleColor(e.rule) # stringColor

---------------------------------------------------------------------------
(* KeywordHighlighter: which occurrences of the input are wrapped *)

LeftFree(s, p) == CharBefore(s, p) = "" \/ ~isalnum(CharBefore(s, p))
RightFree(s, p, n) == CharAfter(s, p, n) = "" \/ ~isalnum(CharAfter(s, p, n))

\* The occurrence of rule r's keyword at position p of the input s is a
\* whole word of s.
WholeWordAt(s, r, p) ==
    /\ OccursAt(s, RuleKeyword(r), p)
    /\ LeftFree(s, p)
    /\ RightFree(s, p, Len(RuleKeyword(r)))

\* As WholeWordAt, but the character before the occurrence may also be the
\* last one of a wrapped occurrence of the keyword of the same rule or of
\* an earlier one.
RECURSIVE WrappedAt(_, _, _)
WrappedAt(s, r, p) ==
    /\ OccursAt(s, RuleKeyword(r), p)
    /\ RightFree(s, p, Len(RuleKeyword(r)))
    /\ \/ LeftFree(s, p)
       \/ \E q \in 1 .. r : WrappedAt(s, q, p - Len(RuleKeyword(q)))

\* s with a span around every occurrence that `wrapped` selects.
WithSpans(s, wrapped(_, _)) ==
    LET rules == 1 .. Len(keywordsWithColors)
        starts(i) == { r \in rules : wrapped(r, i - 1) }
        ends(i) == { r \in rules : wrapped(r, i - Len(RuleKeyword(r))) }
    IN  WithInsertions(s,
            [i \in 1 .. Len(s) |->
                IF starts(i) = {} THEN << >>
                ELSE SpanOpen(RuleColor(CHOOSE r \in starts(i) : TRUE))],
            [i \in 1 .. Len(s) |-> IF ends(i) = {} THEN << >> ELSE SpanClose])

\* C10 as stated: the wrapped occurrences are the whole words of the input.
C10_WrappedIffWholeWordOfInput ==
    Done => LET input == received[Keyword]
                whole(r, p) == WholeWordAt(input, r, p)
            IN  forwarded[Keyword] = WithSpans(input, whole)

\* C10 as amended: an occurrence of a rule's keyword in the input is wrapped
\* if and only if no alphanumeric character follows it and the character
\* before it, if any, is not alphanumeric or ends a wrapped occurrence of
\* the keyword of the same rule or of an earlier one (which happens to
\* "#include", the one keyword that starts with no letter).
C10_WrappedOccurrences ==
    Done => LET input == received[Keyword]
                wrapped(r, p) == WrappedAt(input, r, p)
            IN  forwarded[Keyword] = WithSpans(input, wrapped)

\* "int#include": "#include" follows the letter t and is wrapped all the same.
C10_Witness ==
    /\ Done
    /\ received[Keyword] = << "i", "n", "t", "#", "i", "n", "c", "l", "u", "d", "e" >>
    /\ forwarded[Keyword] = RuleSpan(1) \o RuleSpan(11)

---------------------------------------------------------------------------
(* The order of the calls *)

\* The number of occurrences of class c in the sequence of calls.
CallsOf(c) == Cardinality({ n \in 1 .. Len(calls) : calls[n] = c })

\* C3: one call of render on the chain of main enters the renderers in the
\* order Comment, String, Keyword, Plain, each once; Comment works on the
\* escaped text, String on what Comment forwarded, Keyword on what String
\* forwarded, and Plain wraps what Keyword forwarded, so the result holds
\* the base block once.
C3_CommentStringKeywordBase ==
    /\ calls = SubSeq(<< Comment, String, Keyword, Plain >>, 1, Len(calls))
    /\ Len(calls) >= 1 => received[Comment] = escapedCode
    /\ Len(calls) >= 2 => received[String] = forwarded[Comment]
    /\ Len(calls) >= 3 => received[Keyword] = forwarded[String]
    /\ Len(calls) >= 4 => received[Plain] = forwarded[Keyword]
    /\ Done =>
         /\ \A c \in Classes : CallsOf(c) = 1
         /\ html = PreOpen \o forwarded[Keyword] \o PreClose
         /\ Occurrences(html, PreOpen) = { 0 }
         /\ Occurrences(html, PreClose) = { Len(html) - Len(PreClose) }

\* main's sample: each of the three annotators changes the text.
C3_Witness ==
    /\ Done
    /\ code = cppCode
    /\ calls = << Comment, String, Keyword, Plain >>
    /\ forwarded[Comment] # received[Comment]
    /\ forwarded[String] # received[String]
    /\ forwarded[Keyword] # received[Keyword]

---------------------------------------------------------------------------
(* What an annotator changes *)

Colors == { blue, purple, darkblue, darkorange, red, green, gray }

\* The length of the span tag that starts at index j of s, 0 if none does.
SpanTagLen(s, j) ==
    IF OccursAt(s, SpanClose, j - 1) THEN Len(SpanClose)
    ELSE LET cs == { c \in Colors : OccursAt(s, SpanOpen(c), j - 1) }
         IN  IF cs = {} THEN 0 ELSE Len(SpanOpen(CHOOSE c \in cs : TRUE))

\* The index of the first "<" of t at or after index j, Len(t) + 1 if none.
NextTag(t, j) ==
    LET tags == { k \in j .. Len(t) : t[k] = "<" }
    IN  IF tags = {} THEN Len(t) + 1 ELSE Min(tags)

\* t from index j on is s from index i on with span tags put in: the text
\* of t up to its next "<" is that of s; a span tag of t is a tag put in,
\* or the "<" is one of s.
RECURSIVE SpanTagsPutIn(_, _, _, _)
SpanTagsPutIn(s, i, t, j) ==
    LET n == NextTag(t, j) - j
    IN  IF n > 0
        THEN /\ i + n - 1 <= Len(s)
             /\ SubSeq(s, i, i + n - 1) = SubSeq(t, j, j + n - 1)
             /\ SpanTagsPutIn(s, i + n, t, j + n)
        ELSE IF j > Len(t) THEN i > Len(s)
        ELSE \/ /\ SpanTagLen(t, j) > 0
                /\ SpanTagsPutIn(s, i, t, j + SpanTagLen(t, j))
             \/ /\ i <= Len(s)
                /\ s[i] = "<"
                /\ LET m == NextTag(t, j + 1) - j
                   IN  /\ i + m - 1 <= Len(s)
                       /\ SubSeq(s, i, i + m - 1) = SubSeq(t, j, j + m - 1)
                       /\ SpanTagsPutIn(s, i + m, t, j + m)

\* The pattern of annotator c matches nowhere in s.
NoMatch(c, s) ==
    IF c = Comment THEN Occurrences(s, Slashes) = {}
    ELSE IF c = String THEN QuoteRank(s, Len(s)) < 2
    ELSE \A r \in 1 .. Len(keywordsWithColors) : Occurrences(s, RuleKeyword(r)) = {}

\* C7: the text an annotator forwards is its input with span tags put in
\* and nothing else changed; it is the input itself when the annotator's
\* pattern matches nowhere (the empty text included); and of "return 0;"
\* the keyword annotator wraps return and leaves " 0;" as it is.
C7_OnlySpanTagsInserted ==
    Done =>
      /\ \A c \in Annotators :
            /\ SpanTagsPutIn(received[c], 1, forwarded[c], 1)
            /\ NoMatch(c, received[c]) => forwarded[c] = received[c]
      /\ received[Keyword] = SampleReturn =>
            forwarded[Keyword] = RuleSpan(6) \o << " ", "0", ";" >>

C7_Witness ==
    /\ Done
    /\ code = SampleReturn
    /\ forwarded[Comment] = SampleReturn
    /\ forwarded[String] = SampleReturn
    /\ forwarded[Keyword] =
           SpanOpen(darkblue) \o SubSeq(SampleReturn, 1, 6) \o SpanClose
           \o SubSeq(SampleReturn, 7, 9)

---------------------------------------------------------------------------
(* The nesting order *)

\* What annotator c forwards when its render is called with text.
highlight(c, text) ==
    IF c = Comment THEN CommentHighlighter_highlight(text)
    ELSE IF c = String THEN StringHighlighter_highlight(text)
    ELSE KeywordHighlighter_highlight(text).text

\* render of the outermost renderer of the chain ch, called with text.
RECURSIVE render(_, _)
render(ch, text) ==
    IF Head(ch) = Plain THEN PlainCodeRenderer_render(text)
    ELSE render(Tail(ch), highlight(Head(ch), text))

============================================================================
